---------------------------- MODULE Spec2Model ----------------------------
(***************************************************************************)
(* Model of the music-recommender notebooks of src/unnamed/part_000:       *)
(*   - the ratings feature-group export notebook (02c): existence check,   *)
(*     create, wait for creation, processing job;                          *)
(*   - the deploy / inference / explainability notebook (04).              *)
(* Every call into the platform SDK is one step whose outcome is chosen    *)
(* by the environment (the hosted service); the notebook code decides what *)
(* happens with the outcome.  A "run" is one execution of a notebook's     *)
(* cells from top to bottom (Run All); an uncaught exception stops the     *)
(* run.  A run either starts in a restarted kernel (no variable is         *)
(* defined) or in the kernel of the previous run (variables keep the       *)
(* values the previous run left).                                          *)
(***************************************************************************)
EXTENDS Integers, Sequences, FiniteSets, TLC

\* Number of consecutive runs of a notebook that are explored.
MaxRuns == 3

Runs == 1..MaxRuns

VARIABLES
    \* ---- parameter store ----
    persisted,             \* the persisted 'music-rec' document: key -> value
    \* ---- 02c: feature group export ----
    parameters,            \* parameters[r]: what ps.read answered in run r
    record_identifier_literal,       \* what the guard cell assigns to the name ("None": left open)
    event_time_literal,
    record_identifier_feature_name,  \* record_identifier_feature_name[r]: as run r set it
    event_time_feature_name,
    fgStatus,              \* FeatureGroupStatus in the store, "Absent" when there is none
    fgPopulated,           \* TRUE once a processing job has written into the group
    pc,                    \* pc[r]: the cell run r is at
    abortAt,               \* abortAt[r]: the cell at which run r stopped with an exception
    feature_group_exists,  \* feature_group_exists[r]: the notebook variable as run r sees it
    status,                \* status[r]: local of wait_for_feature_group_creation_complete
    checkOutcome,          \* checkOutcome[r]: what describe_feature_group answered in run r
    fgAtCheck,             \* fgAtCheck[r]: fgStatus when run r made its existence check
    createCalls,           \* createCalls[r]: calls of feature_group.create in run r
    createOutcome,         \* createOutcome[r]: what feature_group.create answered in run r
    jobsSubmitted,         \* jobsSubmitted[r]: processing jobs submitted by run r
    \* ---- 04: deploy ----
    deploy_parameters,     \* deploy_parameters[r]: what ps.read answered in run r
    endpoints,             \* endpoints[n]: EndpointStatus of the endpoint named n, "None" when there is none
    deployPc,              \* deployPc[r]: the cell run r of the deploy section is at
    deployAbortAt,         \* deployAbortAt[r]: the cell at which run r stopped with an exception
    endpoint_list,         \* endpoint_list[r]: names in the list_endpoints response of run r
    statusAtDeploy,        \* statusAtDeploy[r]: status of endpoint_name when run r called deploy
    deployCalls,           \* deployCalls[r]: calls of xgb_estimator.deploy in run r
    endpointsCreated,      \* number of endpoints the service created under endpoint_name
    predictor,             \* predictor[r]: endpoint name the Predictor of run r is bound to
    \* ---- 04: inference, explainability, playlist ----
    df_tracks,             \* the tracks sample: [columns, rows]
    df_user,               \* the user's record: sequence of [FeatureName, ValueAsString]
    feature_names,         \* the trained column order
    artifact,              \* TRUE when explanations_shap/out.csv is at the output path
    artifactOf,            \* the prediction data that out.csv explains
    artifactAtDownload,    \* whether out.csv was at the path when the run asked for it
    history,               \* what the earlier runs of the inference cells did
    inferPc,               \* the cell the run is at
    inferAbortAt,          \* the cell at which the run stopped with an exception
    data,                  \* the cross join, columns lower-cased
    inference_df,
    data_inputs,           \* one CSV line per inference row
    predictions,
    requests,              \* the requests sent to the endpoint: [input, answered]
    scores,                \* the scores the endpoint answered with, in order
    predCsv,               \* rows of the uploaded prediction_data.csv
    predColumns,           \* labels of the columns of the frame written to it
    downloadOutcome,       \* what download_file answered
    explainJobs,           \* explainability jobs submitted
    playlist_length,
    playlist,
    \* ---- 04: one inference row on the wire ----
    wireRow,               \* the values of the row
    wire,                  \* the text/csv line sent for it
    parsedRow,             \* what the receiver reads from the line
    wirePc,
    \* ---- GPT-J training notebook ----
    trainPc,               \* trainPc[r]: the cell run r is at
    hyperparameters,       \* hyperparameters[r]: the mapping run r built
    distribution,          \* distribution[r]: the mpi and model-parallel blocks run r built
    trainingJob,           \* trainingJob[r]: the job run r submitted
    trainingStatus,        \* trainingStatus[r]: status of that job
    \* ---- 02c: the feature definitions of the ratings feature group ----
    column_schemas,        \* the list of {name, type} of the export's columns
    feature_definitions,   \* the list of FeatureDefinition(feature_name, feature_type)
    schemaPc

ingestVars == <<parameters, record_identifier_literal, event_time_literal,
                record_identifier_feature_name, event_time_feature_name,
                fgStatus, fgPopulated, pc, abortAt, feature_group_exists, status,
                checkOutcome, fgAtCheck, createCalls, createOutcome, jobsSubmitted>>

deployVars == <<deploy_parameters, endpoints, deployPc, deployAbortAt, endpoint_list, statusAtDeploy,
                deployCalls, endpointsCreated, predictor>>

inferVars == <<df_tracks, df_user, feature_names, artifact, artifactOf, artifactAtDownload,
               history, inferPc, inferAbortAt, data,
               inference_df, data_inputs, predictions, requests, scores, predCsv,
               predColumns, downloadOutcome, explainJobs, playlist_length, playlist>>

wireVars == <<wireRow, wire, parsedRow, wirePc>>

trainVars == <<trainPc, hyperparameters, distribution, trainingJob, trainingStatus>>

schemaVars == <<column_schemas, feature_definitions, schemaPc>>

vars == <<persisted, ingestVars, deployVars, inferVars, wireVars, trainVars, schemaVars>>

---------------------------------------------------------------------------
(* The parameter store (code/parameter_store.py) as the notebooks use it:  *)
(* ps.read(namespace), ps.add(mapping, namespace), ps.store().             *)

\* Values are sequences of name parts; the empty one stands for a key that is
\* not in a mapping.
Missing == <<>>

\* Keys the notebooks read from, or add to, the namespace 'music-rec'.
IngestRequiredKeys ==
    {"bucket", "dw_ecrlist", "fg_name_tracks", "flow_export_id", "flow_s3_uri",
     "pretrained_model_path", "prefix", "ratings_data_source", "tracks_data_source"}

DeployRequiredKeys ==
    IngestRequiredKeys \cup
    {"fg_name_ratings", "fg_name_user_preferences", "model_name", "training_job_name",
     "mpg_name", "feature_names", "train_data_uri"}

ParamKeys == DeployRequiredKeys \cup {"endpoint_name"}

\* The value persisted under 'model_name'.
model_name == <<"model">>

\* feature_group_name = 'ratings-features-music-rec'
feature_group_name == <<"ratings-features-music-rec">>

\* A mapping with no key: an undefined namespace, an empty buffer.
NoParams == [k \in ParamKeys |-> Missing]

\* {key: value}
OneParam(key, value) == [k \in ParamKeys |-> IF k = key THEN value ELSE Missing]

\* ps.read(namespace): the persisted mapping.
PsRead(doc) == doc

\* ps.add(mapping, namespace): the keys of the mapping go into the buffer.
PsAdd(buffer, mapping) ==
    [k \in ParamKeys |-> IF mapping[k] # Missing THEN mapping[k] ELSE buffer[k]]

\* ps.store(): the buffer is persisted; keys it does not hold stay.
PsStore(doc, buffer) == PsAdd(doc, buffer)

\* A cell that adds a mapping and does not store it.
AddWithoutStore(doc, mapping) == doc

\* ps.add(mapping, namespace='music-rec'); ps.store()
AddAndStore(doc, mapping) == PsStore(doc, PsAdd(NoParams, mapping))

\* The mapping the earlier stages of the workflow leave: every key but the
\* two that the notebooks modelled here add.
EarlierStagesParams ==
    [k \in ParamKeys |->
        IF k \in {"fg_name_ratings", "endpoint_name"} THEN Missing
        ELSE IF k = "model_name" THEN model_name
        ELSE <<"the ", k>>]

\* A value an earlier run stored under a key that a notebook adds.
OldValue == <<"old">>

\* parameters.get(key): no error for a key that is not there.
KeyErrorNever(mapping, key) == FALSE

\* parameters[key] raises KeyError for a key that is not there.
KeyError(mapping, key) == mapping[key] = Missing

---------------------------------------------------------------------------
(* 02c: create the ratings feature group and ingest into it.               *)

\* Error codes of a botocore ClientError.  "ThrottlingException" stands for
\* every code the notebook does not name; "NoResponse" is an exception that
\* is no ClientError (it has no .response), e.g. a connection error.
OtherCode  == "ThrottlingException"

\* What describe_feature_group can answer for a group in store state st.
DescribeOutcomes(st) ==
    IF st = "Absent"
    THEN {"ResourceNotFound", OtherCode, "NoResponse"}
    ELSE {"Found", "ResourceInUse", OtherCode, "NoResponse"}

\* The except block of the existence check: the value of feature_group_exists
\* after it, for error code `code` and the value `old` the variable had.
ExistsAfterErrorInUseFalse(code, old) ==
    IF code = "ResourceNotFound" THEN "False"
    ELSE IF code = "ResourceInUse" THEN "False"
    ELSE old

ExistsAfterError(code, old) ==
    IF code = "ResourceNotFound" THEN "False"
    ELSE IF code = "ResourceInUse" THEN "True"
    ELSE old

\* The store has one feature group per name: a create for a name that is
\* taken is refused with ResourceInUse.
CreateRefusesName(st) == st # "Absent"

\* An except block that creates the group for ResourceInUse as well.
CreatesOnErrorInUse(code) == code \in {"ResourceNotFound", "ResourceInUse"}

\* The except block calls feature_group.create exactly for this code.
CreatesOnError(code) == code = "ResourceNotFound"

\* wait_for_feature_group_creation_complete: the loop condition and the test
\* after the loop.
WaitLoopContinuesNever(st) == FALSE

WaitLoopContinues(st) == st = "Creating"

WaitSucceedsAlways(st) == TRUE

WaitSucceeds(st) == st = "Created"

\* The last cell: `if feature_group_exists: skip  else: processor.run(...)`.
RunsProcessingJob(fge) == fge # "True"

\* The cell that names the record identifier and the event time feature is
\* filled in by the user before the notebook is run: each name is given or
\* left open (None).
RecordIdentifierSettings == {"ratingEventId", "None"}
EventTimeSettings == {"EventTime", "None"}

\* if record_identifier_feature_name is None: raise SystemExit(...)
GuardRaisesNever(name) == FALSE

GuardRaises(name) == name = "None"

\* What the namespace may hold before the first run of the export notebook:
\* nothing, the earlier stages' mapping, or that mapping without a key the
\* notebook reads.
IngestParamDocs ==
    {NoParams, EarlierStagesParams, [EarlierStagesParams EXCEPT !["bucket"] = Missing]}

\* The export notebook is not run.
IngestIdle ==
    /\ parameters = [r \in Runs |-> NoParams]
    /\ record_identifier_literal = "ratingEventId"
    /\ event_time_literal = "EventTime"
    /\ record_identifier_feature_name = [r \in Runs |-> "unset"]
    /\ event_time_feature_name = [r \in Runs |-> "unset"]
    /\ fgStatus = "Absent"
    /\ fgPopulated = FALSE
    /\ pc = [r \in Runs |-> "closed"]
    /\ abortAt = [r \in Runs |-> "none"]
    /\ feature_group_exists = [r \in Runs |-> "unset"]
    /\ status = [r \in Runs |-> "none"]
    /\ checkOutcome = [r \in Runs |-> "none"]
    /\ fgAtCheck = [r \in Runs |-> "none"]
    /\ createCalls = [r \in Runs |-> 0]
    /\ createOutcome = [r \in Runs |-> "none"]
    /\ jobsSubmitted = [r \in Runs |-> 0]

IngestInit ==
    /\ persisted \in IngestParamDocs
    /\ parameters = [r \in Runs |-> NoParams]
    /\ record_identifier_literal \in RecordIdentifierSettings
    /\ event_time_literal \in EventTimeSettings
    /\ record_identifier_feature_name = [r \in Runs |-> "unset"]
    /\ event_time_feature_name = [r \in Runs |-> "unset"]
    /\ fgStatus = "Absent"
    /\ fgPopulated = FALSE
    /\ pc = [r \in Runs |-> "idle"]
    /\ abortAt = [r \in Runs |-> "none"]
    /\ feature_group_exists = [r \in Runs |-> "unset"]
    /\ status = [r \in Runs |-> "none"]
    /\ checkOutcome = [r \in Runs |-> "none"]
    /\ fgAtCheck = [r \in Runs |-> "none"]
    /\ createCalls = [r \in Runs |-> 0]
    /\ createOutcome = [r \in Runs |-> "none"]
    /\ jobsSubmitted = [r \in Runs |-> 0]

\* The export notebook touches nothing of the deploy and inference notebook.
IngestFrame ==
    UNCHANGED <<deployVars, inferVars, wireVars, trainVars, schemaVars, persisted, parameters,
                record_identifier_literal, event_time_literal,
                record_identifier_feature_name, event_time_feature_name>>

\* The cells of the export notebook that read and write the parameters.
IngestParamsFrame ==
    UNCHANGED <<deployVars, inferVars, wireVars, trainVars, schemaVars, record_identifier_literal,
                event_time_literal, fgStatus, fgPopulated,
                feature_group_exists, status, checkOutcome, fgAtCheck, createCalls, createOutcome,
                jobsSubmitted>>

Finished(r) == pc[r] \in {"done", "aborted"}

Abort(r, cell) ==
    /\ pc' = [pc EXCEPT ![r] = "aborted"]
    /\ abortAt' = [abortAt EXCEPT ![r] = cell]

\* A second user runs the notebook in a kernel of their own while the run
\* before is under way.
StartConcurrentRun(r) ==
    /\ IngestFrame
    /\ pc[r] = "idle"
    /\ r > 1
    /\ pc[r - 1] \notin {"idle", "closed"}
    /\ ~Finished(r - 1)
    /\ pc' = [pc EXCEPT ![r] = "params"]
    /\ UNCHANGED <<fgStatus, fgPopulated, abortAt, feature_group_exists, status, checkOutcome,
                   fgAtCheck, createCalls, createOutcome, jobsSubmitted>>

\* Run r starts once the previous run has ended, in a restarted kernel or in
\* the kernel the previous run left behind.
StartRun(r) ==
    /\ IngestFrame
    /\ pc[r] = "idle"
    /\ r > 1 => Finished(r - 1)
    /\ \E restarted \in BOOLEAN :
         feature_group_exists' =
             [feature_group_exists EXCEPT
                 ![r] = IF restarted \/ r = 1 THEN "unset"
                        ELSE feature_group_exists[r - 1]]
    /\ pc' = [pc EXCEPT ![r] = "params"]
    /\ UNCHANGED <<fgStatus, fgPopulated, abortAt, status, checkOutcome, fgAtCheck,
                   createCalls, createOutcome, jobsSubmitted>>

\* parameters = ps.read('music-rec'); bucket = parameters['bucket']; ...
\* Reading an undefined namespace raises, and so does a key that is not there;
\* the store has no other failure.
ReadParameters(r) ==
    /\ IngestParamsFrame
    /\ pc[r] = "params"
    /\ IF persisted # NoParams
       THEN /\ parameters' = [parameters EXCEPT ![r] = PsRead(persisted)]
            /\ IF \E k \in IngestRequiredKeys : KeyError(PsRead(persisted), k)
               THEN Abort(r, "params")
               ELSE /\ pc' = [pc EXCEPT ![r] = "guard"]
                    /\ UNCHANGED abortAt
       ELSE /\ Abort(r, "params")
            /\ UNCHANGED parameters
    /\ UNCHANGED <<persisted, record_identifier_feature_name, event_time_feature_name>>

\* record_identifier_feature_name = ...; if ... is None: raise SystemExit
\* event_time_feature_name = ...;        if ... is None: raise SystemExit
Guards(r) ==
    /\ IngestParamsFrame
    /\ pc[r] = "guard"
    /\ record_identifier_feature_name' =
           [record_identifier_feature_name EXCEPT ![r] = record_identifier_literal]
    /\ IF GuardRaises(record_identifier_literal)
       THEN /\ Abort(r, "guard")
            /\ UNCHANGED event_time_feature_name
       ELSE /\ event_time_feature_name' =
                   [event_time_feature_name EXCEPT ![r] = event_time_literal]
            /\ IF GuardRaises(event_time_literal)
               THEN Abort(r, "guard")
               ELSE /\ pc' = [pc EXCEPT ![r] = "store"]
                    /\ UNCHANGED abortAt
    /\ UNCHANGED <<persisted, parameters>>

\* fg_name_ratings = feature_group_name
\* ps.add({'fg_name_ratings': fg_name_ratings}, namespace='music-rec'); ps.store()
StoreParameters(r) ==
    /\ IngestParamsFrame
    /\ pc[r] = "store"
    /\ persisted' = AddAndStore(persisted, OneParam("fg_name_ratings", feature_group_name))
    /\ pc' = [pc EXCEPT ![r] = "check"]
    /\ UNCHANGED abortAt
    /\ UNCHANGED <<parameters, record_identifier_feature_name, event_time_feature_name>>

\* try: describe_feature_group(...); feature_group_exists=True
\* except: classify the error code.
ExistenceCheck(r) ==
    /\ IngestFrame
    /\ pc[r] = "check"
    /\ \E o \in DescribeOutcomes(fgStatus) :
         /\ checkOutcome' = [checkOutcome EXCEPT ![r] = o]
         /\ fgAtCheck' = [fgAtCheck EXCEPT ![r] = fgStatus]
         /\ IF o = "Found"
            THEN /\ feature_group_exists' = [feature_group_exists EXCEPT ![r] = "True"]
                 /\ pc' = [pc EXCEPT ![r] = "wait"]
                 /\ UNCHANGED abortAt
            ELSE IF o = "NoResponse"
            THEN /\ Abort(r, "check")
                 /\ UNCHANGED feature_group_exists
            ELSE /\ feature_group_exists' =
                        [feature_group_exists EXCEPT
                            ![r] = ExistsAfterError(o, feature_group_exists[r])]
                 /\ pc' = [pc EXCEPT ![r] = IF CreatesOnError(o) THEN "create" ELSE "wait"]
                 /\ UNCHANGED abortAt
    /\ UNCHANGED <<fgStatus, fgPopulated, status, createCalls, createOutcome, jobsSubmitted>>

\* feature_group.create(...) inside the except block; an exception of create
\* leaves the handler and stops the run.
CreateFeatureGroup(r) ==
    /\ IngestFrame
    /\ pc[r] = "create"
    /\ createCalls' = [createCalls EXCEPT ![r] = @ + 1]
    /\ IF CreateRefusesName(fgStatus)
       THEN /\ createOutcome' = [createOutcome EXCEPT ![r] = "ResourceInUse"]
            /\ Abort(r, "create")
            /\ UNCHANGED fgStatus
       ELSE \E accepted \in BOOLEAN :
              IF accepted
              THEN /\ createOutcome' = [createOutcome EXCEPT ![r] = "created"]
                   /\ fgStatus' = "Creating"
                   /\ pc' = [pc EXCEPT ![r] = "wait"]
                   /\ UNCHANGED abortAt
              ELSE /\ createOutcome' = [createOutcome EXCEPT ![r] = "failed"]
                   /\ Abort(r, "create")
                   /\ UNCHANGED fgStatus
    /\ UNCHANGED <<fgPopulated, feature_group_exists, status, checkOutcome, fgAtCheck,
                   jobsSubmitted>>

\* The store finishes a creation.
CreationEnds ==
    /\ IngestFrame
    /\ fgStatus = "Creating"
    /\ \E st \in {"Created", "CreateFailed"} : fgStatus' = st
    /\ UNCHANGED <<fgPopulated, pc, abortAt, feature_group_exists, status,
                   checkOutcome, fgAtCheck, createCalls, createOutcome, jobsSubmitted>>

\* feature_group.describe() of the wait helper: raises when there is no group
\* or the call fails, else answers the status.
DescribeStatus(r, cell) ==
    \E answered \in BOOLEAN :
        IF answered /\ fgStatus # "Absent"
        THEN /\ status' = [status EXCEPT ![r] = fgStatus]
             /\ pc' = [pc EXCEPT ![r] = "poll"]
             /\ UNCHANGED abortAt
        ELSE /\ Abort(r, cell)
             /\ UNCHANGED status

\* status = feature_group.describe().get("FeatureGroupStatus")
WaitFirstDescribe(r) ==
    /\ IngestFrame
    /\ pc[r] = "wait"
    /\ DescribeStatus(r, "wait")
    /\ UNCHANGED <<fgStatus, fgPopulated, feature_group_exists, checkOutcome, fgAtCheck,
                   createCalls, createOutcome, jobsSubmitted>>

\* while status == "Creating": sleep(5); status = describe()
WaitPoll(r) ==
    /\ IngestFrame
    /\ pc[r] = "poll"
    /\ WaitLoopContinues(status[r])
    /\ DescribeStatus(r, "wait")
    /\ UNCHANGED <<fgStatus, fgPopulated, feature_group_exists, checkOutcome, fgAtCheck,
                   createCalls, createOutcome, jobsSubmitted>>

\* if status != "Created": raise SystemExit(...)
WaitExit(r) ==
    /\ IngestFrame
    /\ pc[r] = "poll"
    /\ ~WaitLoopContinues(status[r])
    /\ IF WaitSucceeds(status[r])
       THEN /\ pc' = [pc EXCEPT ![r] = "ingest"]
            /\ UNCHANGED abortAt
       ELSE Abort(r, "wait")
    /\ UNCHANGED <<fgStatus, fgPopulated, feature_group_exists, status, checkOutcome, fgAtCheck,
                   createCalls, createOutcome, jobsSubmitted>>

\* if feature_group_exists: print(...)  else: processor.run(..., wait=False)
\* Reading the variable in a kernel where no run has set it is a NameError.
IngestGate(r) ==
    /\ IngestFrame
    /\ pc[r] = "ingest"
    /\ IF feature_group_exists[r] = "unset"
       THEN /\ Abort(r, "ingest")
            /\ UNCHANGED jobsSubmitted
       ELSE IF RunsProcessingJob(feature_group_exists[r])
       THEN \E accepted \in BOOLEAN :
              IF accepted
              THEN /\ jobsSubmitted' = [jobsSubmitted EXCEPT ![r] = @ + 1]
                   /\ pc' = [pc EXCEPT ![r] = "jobwait"]
                   /\ UNCHANGED abortAt
              ELSE /\ Abort(r, "ingest")
                   /\ UNCHANGED jobsSubmitted
       ELSE /\ pc' = [pc EXCEPT ![r] = "done"]
            /\ UNCHANGED <<abortAt, jobsSubmitted>>
    /\ UNCHANGED <<fgStatus, fgPopulated, feature_group_exists, status, checkOutcome, fgAtCheck,
                   createCalls, createOutcome>>

\* job_result = sess.wait_for_processing_job(processing_job_name): returns
\* when the job completed, raises when it failed.
WaitForProcessingJob(r) ==
    /\ IngestFrame
    /\ pc[r] = "jobwait"
    /\ \E completed \in BOOLEAN :
         IF completed
         THEN /\ fgPopulated' = TRUE
              /\ pc' = [pc EXCEPT ![r] = "done"]
              /\ UNCHANGED abortAt
         ELSE /\ Abort(r, "jobwait")
              /\ UNCHANGED fgPopulated
    /\ UNCHANGED <<fgStatus, feature_group_exists, status, checkOutcome, fgAtCheck,
                   createCalls, createOutcome, jobsSubmitted>>

\* Two users run the export notebook for the same feature group name.
ConcurrentRuns == 1..2

IngestConcurrentInit ==
    /\ persisted = EarlierStagesParams
    /\ parameters = [r \in Runs |-> NoParams]
    /\ record_identifier_literal = "ratingEventId"
    /\ event_time_literal = "EventTime"
    /\ record_identifier_feature_name = [r \in Runs |-> "unset"]
    /\ event_time_feature_name = [r \in Runs |-> "unset"]
    /\ fgStatus = "Absent"
    /\ fgPopulated = FALSE
    /\ pc = [r \in Runs |-> IF r \in ConcurrentRuns THEN "idle" ELSE "closed"]
    /\ abortAt = [r \in Runs |-> "none"]
    /\ feature_group_exists = [r \in Runs |-> "unset"]
    /\ status = [r \in Runs |-> "none"]
    /\ checkOutcome = [r \in Runs |-> "none"]
    /\ fgAtCheck = [r \in Runs |-> "none"]
    /\ createCalls = [r \in Runs |-> 0]
    /\ createOutcome = [r \in Runs |-> "none"]
    /\ jobsSubmitted = [r \in Runs |-> 0]

IngestNext ==
    \/ \E r \in Runs :
         \/ StartRun(r)
         \/ ReadParameters(r)
         \/ Guards(r)
         \/ StoreParameters(r)
         \/ ExistenceCheck(r)
         \/ CreateFeatureGroup(r)
         \/ WaitFirstDescribe(r)
         \/ WaitPoll(r)
         \/ WaitExit(r)
         \/ IngestGate(r)
         \/ WaitForProcessingJob(r)
    \/ CreationEnds


---------------------------------------------------------------------------
(* 04: deploy the model as an endpoint (or use the one in service) and     *)
(* bind a predictor.                                                       *)

\* Names are sequences of name parts; NameContains is the substring test of
\* list_endpoints(NameContains=...).

\* endpoint_name = '{}-endpoint-notebooks'.format(model_name)
EndpointNameOf(m) == m \o <<"-endpoint-notebooks">>

endpoint_name == EndpointNameOf(model_name)

\* Endpoints of other owners that the account may hold: one whose name
\* contains endpoint_name and one whose name does not.
OtherEndpointNames ==
    { endpoint_name \o <<"-v2">>, <<"other">> \o <<"-endpoint-notebooks">> }

EndpointNames == {endpoint_name} \cup OtherEndpointNames

NameContains(name, part) ==
    \E i \in 1..(Len(name) - Len(part) + 1) :
        SubSeq(name, i, i + Len(part) - 1) = part

\* list_endpoints(NameContains=endpoint_name, StatusEquals='InService')
ListInService(eps) ==
    { n \in DOMAIN eps : eps[n] = "InService" /\ NameContains(n, endpoint_name) }

\* if len(endpoint_list['Endpoints']) > 0: use it  else: deploy
DeploysAlways(listed) == TRUE

Deploys(listed) == ~(Cardinality(listed) > 0)

\* What the namespace may hold before the first run of the deploy notebook:
\* nothing, the mapping the earlier stages and the export notebook leave, that
\* mapping without a key the notebook reads, each with or without an
\* endpoint_name of an earlier run.
DeployParamDocs ==
    LET left == [EarlierStagesParams EXCEPT !["fg_name_ratings"] = feature_group_name]
    IN {NoParams} \cup
       { [d EXCEPT !["endpoint_name"] = v] :
           d \in {left, [left EXCEPT !["model_name"] = Missing],
                  [left EXCEPT !["fg_name_ratings"] = Missing]},
           v \in {Missing, OldValue} }

\* The deploy notebook is not run.
DeployIdle ==
    /\ deploy_parameters = [r \in Runs |-> NoParams]
    /\ endpoints = [n \in EndpointNames |-> "None"]
    /\ deployPc = [r \in Runs |-> "closed"]
    /\ deployAbortAt = [r \in Runs |-> "none"]
    /\ endpoint_list = [r \in Runs |-> {}]
    /\ statusAtDeploy = [r \in Runs |-> "none"]
    /\ deployCalls = [r \in Runs |-> 0]
    /\ endpointsCreated = 0
    /\ predictor = [r \in Runs |-> <<>>]

\* Before the first run there is no endpoint named endpoint_name; endpoints of
\* other owners may be in service.
DeployInit ==
    /\ persisted \in DeployParamDocs
    /\ deploy_parameters = [r \in Runs |-> NoParams]
    /\ endpoints \in [EndpointNames -> {"None", "InService"}]
    /\ endpoints[endpoint_name] = "None"
    /\ deployPc = [r \in Runs |-> "idle"]
    /\ deployAbortAt = [r \in Runs |-> "none"]
    /\ endpoint_list = [r \in Runs |-> {}]
    /\ statusAtDeploy = [r \in Runs |-> "none"]
    /\ deployCalls = [r \in Runs |-> 0]
    /\ endpointsCreated = 0
    /\ predictor = [r \in Runs |-> <<>>]

DeployFrame ==
    UNCHANGED <<ingestVars, inferVars, wireVars, trainVars, schemaVars, persisted, deploy_parameters>>

\* The cells of the deploy notebook that read and write the parameters.
DeployParamsFrame ==
    UNCHANGED <<ingestVars, inferVars, wireVars, trainVars, schemaVars, endpoints, endpoint_list,
                statusAtDeploy, deployCalls, endpointsCreated, predictor>>

DeployFinished(r) == deployPc[r] \in {"done", "aborted"}

DeployAbort(r, cell) ==
    /\ deployPc' = [deployPc EXCEPT ![r] = "aborted"]
    /\ deployAbortAt' = [deployAbortAt EXCEPT ![r] = cell]

DeployStartRun(r) ==
    /\ DeployFrame
    /\ deployPc[r] = "idle"
    /\ r > 1 => DeployFinished(r - 1)
    /\ deployPc' = [deployPc EXCEPT ![r] = "params"]
    /\ UNCHANGED <<endpoints, deployAbortAt, endpoint_list, statusAtDeploy,
                   deployCalls, endpointsCreated, predictor>>

\* parameters = ps.read('music-rec'); bucket = parameters['bucket']; ...
DeployReadParameters(r) ==
    /\ DeployParamsFrame
    /\ deployPc[r] = "params"
    /\ IF persisted # NoParams
       THEN /\ deploy_parameters' = [deploy_parameters EXCEPT ![r] = PsRead(persisted)]
            /\ IF \E k \in DeployRequiredKeys : KeyError(PsRead(persisted), k)
               THEN DeployAbort(r, "params")
               ELSE /\ deployPc' = [deployPc EXCEPT ![r] = "store"]
                    /\ UNCHANGED deployAbortAt
       ELSE /\ DeployAbort(r, "params")
            /\ UNCHANGED deploy_parameters
    /\ UNCHANGED persisted

\* endpoint_name = '{}-endpoint-notebooks'.format(model_name)
\* ps.add({'endpoint_name':endpoint_name}, namespace='music-rec'); ps.store()
DeployStoreParameters(r) ==
    /\ DeployParamsFrame
    /\ deployPc[r] = "store"
    /\ persisted' =
           AddAndStore(persisted,
                       OneParam("endpoint_name",
                                EndpointNameOf(deploy_parameters[r]["model_name"])))
    /\ deployPc' = [deployPc EXCEPT ![r] = "list"]
    /\ UNCHANGED deployAbortAt
    /\ UNCHANGED deploy_parameters

\* endpoint_list = sagemaker_client.list_endpoints(...)
ListEndpoints(r) ==
    /\ DeployFrame
    /\ deployPc[r] = "list"
    /\ \E answered \in BOOLEAN :
         IF answered
         THEN /\ endpoint_list' = [endpoint_list EXCEPT ![r] = ListInService(endpoints)]
              /\ deployPc' = [deployPc EXCEPT ![r] = "create_endpoint"]
              /\ UNCHANGED deployAbortAt
         ELSE /\ DeployAbort(r, "list")
              /\ UNCHANGED endpoint_list
    /\ UNCHANGED <<endpoints, statusAtDeploy, deployCalls, endpointsCreated, predictor>>

\* if len(endpoint_list['Endpoints']) > 0: print("Using existing endpoint")
\* else: xgb_estimator.deploy(..., endpoint_name=endpoint_name)
\* The service refuses to create an endpoint under a name that is taken.
CreateEndpoint(r) ==
    /\ DeployFrame
    /\ deployPc[r] = "create_endpoint"
    /\ IF Deploys(endpoint_list[r])
       THEN /\ deployCalls' = [deployCalls EXCEPT ![r] = @ + 1]
            /\ statusAtDeploy' = [statusAtDeploy EXCEPT ![r] = endpoints[endpoint_name]]
            /\ \E accepted \in BOOLEAN :
                 IF accepted /\ endpoints[endpoint_name] = "None"
                 THEN /\ endpoints' = [endpoints EXCEPT ![endpoint_name] = "Creating"]
                      /\ endpointsCreated' = endpointsCreated + 1
                      /\ deployPc' = [deployPc EXCEPT ![r] = "deploying"]
                      /\ UNCHANGED deployAbortAt
                 ELSE /\ DeployAbort(r, "create_endpoint")
                      /\ UNCHANGED <<endpoints, endpointsCreated>>
       ELSE /\ deployPc' = [deployPc EXCEPT ![r] = "approve"]
            /\ UNCHANGED <<endpoints, deployAbortAt, statusAtDeploy, deployCalls,
                           endpointsCreated>>
    /\ UNCHANGED <<endpoint_list, predictor>>

\* The service finishes the creation of an endpoint.
EndpointCreationEnds ==
    /\ DeployFrame
    /\ endpoints[endpoint_name] = "Creating"
    /\ \E st \in {"InService", "Failed"} :
         endpoints' = [endpoints EXCEPT ![endpoint_name] = st]
    /\ UNCHANGED <<deployPc, deployAbortAt, endpoint_list, statusAtDeploy,
                   deployCalls, endpointsCreated, predictor>>

\* deploy() waits for the endpoint: it returns when the endpoint is in
\* service and raises when its creation failed.
DeployWait(r) ==
    /\ DeployFrame
    /\ deployPc[r] = "deploying"
    /\ endpoints[endpoint_name] # "Creating"
    /\ IF endpoints[endpoint_name] = "InService"
       THEN /\ deployPc' = [deployPc EXCEPT ![r] = "approve"]
            /\ UNCHANGED deployAbortAt
       ELSE DeployAbort(r, "create_endpoint")
    /\ UNCHANGED <<endpoints, endpoint_list, statusAtDeploy, deployCalls,
                   endpointsCreated, predictor>>

\* list_model_packages(...)[0]; update_model_package(ModelApprovalStatus='Approved')
ApproveModelPackage(r) ==
    /\ DeployFrame
    /\ deployPc[r] = "approve"
    /\ \E answered \in BOOLEAN :
         IF answered
         THEN /\ deployPc' = [deployPc EXCEPT ![r] = "predictor"]
              /\ UNCHANGED deployAbortAt
         ELSE DeployAbort(r, "approve")
    /\ UNCHANGED <<endpoints, endpoint_list, statusAtDeploy, deployCalls,
                   endpointsCreated, predictor>>

\* predictor = sagemaker.predictor.Predictor(endpoint_name=endpoint_name, ...)
CreatePredictor(r) ==
    /\ DeployFrame
    /\ deployPc[r] = "predictor"
    /\ predictor' = [predictor EXCEPT ![r] = endpoint_name]
    /\ deployPc' = [deployPc EXCEPT ![r] = "done"]
    /\ UNCHANGED <<endpoints, deployAbortAt, endpoint_list, statusAtDeploy, deployCalls,
                   endpointsCreated>>

DeployNext ==
    \/ \E r \in Runs :
         \/ DeployStartRun(r)
         \/ DeployReadParameters(r)
         \/ DeployStoreParameters(r)
         \/ ListEndpoints(r)
         \/ CreateEndpoint(r)
         \/ DeployWait(r)
         \/ ApproveModelPackage(r)
         \/ CreatePredictor(r)
    \/ EndpointCreationEnds

---------------------------------------------------------------------------
(* 04: inference against the endpoint, explainability, playlist.           *)

\* Bounds on the feature columns beside the identifier and event time of a
\* feature group, and on the rows the tracks query returns.
MaxCols == 2
MaxRows == 2

\* A column name is <<base, suffix>>; the suffix is "" until a merge adds
\* "_x" / "_y" to a name both frames have.
Name(b) == <<b, "">>

\* The Athena table of the tracks group has lower-case columns; get_record
\* answers the user preferences under the feature names as they were defined.
TrackFeaturePool == {"energy", "tempo"}
UserFeaturePool  == {"energy", "energy_5star"}
TrainedColumnPool == {"energy", "tempo", "energy_5star", "eventtime"}

\* Scores the endpoint answers.
Scores == {1, 2}

\* playlist_length is a literal of the playlist cell, set against the up to
\* 1000 rows of the tracks query; with the rows bounded by MaxRows the lengths
\* explored are the literal and one that is below the row bound.
playlist_length_default == 10
PlaylistLengths == {1, playlist_length_default}

\* Error codes of the S3 download: "404" and one the notebook does not name.
OtherS3Code == "403"

\* c.lower() on the names in use.
LowerBase(b) ==
    CASE b = "userId" -> "userid"
      [] b = "EventTime" -> "eventtime"
      [] OTHER -> b

Lower(name) == <<LowerBase(name[1]), name[2]>>

\* Sequences over S of length lo..hi in which no element repeats.
InjectiveSeqs(S, lo, hi) ==
    UNION { { q \in [1..k -> S] : \A i, j \in 1..k : i # j => q[i] # q[j] } : k \in lo..hi }

Range(q) == { q[i] : i \in DOMAIN q }

\* Cell values: the features of track i, the ValueAsString of user feature j.
TrackCell(i, j) == 10 * i + j
UserCell(j) == 90 + j

\* tracks_query.as_dataframe(): n rows under the given feature columns.
TracksFrame(feats, n) ==
    LET cols == <<Name("trackid")>> \o [j \in 1..Len(feats) |-> Name(feats[j])]
                    \o <<Name("eventtime")>>
    IN [columns |-> cols,
        rows |-> [i \in 1..n |-> [j \in 1..Len(cols) |-> TrackCell(i, j)]]]

\* fg_response['Record']: the tall record of (FeatureName, ValueAsString).
UserRecord(feats) ==
    LET names == <<"userId">> \o feats \o <<"EventTime">>
    IN [j \in 1..Len(names) |-> [FeatureName |-> names[j], ValueAsString |-> UserCell(j)]]

\* pd.DataFrame(df_user['ValueAsString']).T: one row, a column per feature.
Transposed(record) ==
    [columns |-> [j \in 1..Len(record) |-> Name(record[j].FeatureName)],
     rows |-> << [j \in 1..Len(record) |-> record[j].ValueAsString] >>]

\* merge(how='cross'): a name both frames have gets the suffix of its side.
Suffixed(cols, other, sfx) ==
    [j \in 1..Len(cols) |->
        IF \E k \in 1..Len(other) : other[k] = cols[j]
        THEN <<cols[j][1], cols[j][2] \o sfx>>
        ELSE cols[j]]

MergeCross(left, right) ==
    [columns |-> Suffixed(left.columns, right.columns, "_x")
                    \o Suffixed(right.columns, left.columns, "_y"),
     rows |-> [k \in 1..(Len(left.rows) * Len(right.rows)) |->
                  left.rows[((k - 1) \div Len(right.rows)) + 1]
                      \o right.rows[((k - 1) % Len(right.rows)) + 1]]]

\* data.columns = [c.lower() for c in data.columns]
LowerColumns(df) ==
    [columns |-> [j \in 1..Len(df.columns) |-> Lower(df.columns[j])], rows |-> df.rows]

\* Positions of the columns labelled f, in column order.
PosSeq(cols, f) == SelectSeq([j \in 1..Len(cols) |-> j], LAMBDA j : cols[j] = f)

RECURSIVE Flatten(_)
Flatten(ss) == IF Len(ss) = 0 THEN <<>> ELSE ss[1] \o Flatten(Tail(ss))

\* df[names]: KeyError unless every name labels a column ...
HasColumns(df, names) == \A i \in 1..Len(names) : Len(PosSeq(df.columns, names[i])) > 0

\* A selection that keeps the frame's column order (as a boolean mask over
\* the columns would).
SelectedPositionsFrameOrder(cols, names) ==
    SelectSeq([j \in 1..Len(cols) |-> j], LAMBDA j : \E i \in 1..Len(names) : cols[j] = names[i])

\* ... and the columns labelled names[1], names[2], ... in that order, each
\* label with every column that carries it.
SelectedPositions(cols, names) ==
    Flatten([i \in 1..Len(names) |-> PosSeq(cols, names[i])])

GetColumns(df, names) ==
    LET ps == SelectedPositions(df.columns, names)
    IN [columns |-> [i \in 1..Len(ps) |-> df.columns[ps[i]]],
        rows |-> [r \in 1..Len(df.rows) |-> [i \in 1..Len(ps) |-> df.rows[r][ps[i]]]]]

\* df[name] = values: a new last column (the label is new in every use here).
WithColumn(df, name, values) ==
    [columns |-> Append(df.columns, name),
     rows |-> [r \in 1..Len(df.rows) |-> Append(df.rows[r], values[r])]]

\* The values of the first column labelled name.
Column(df, name) ==
    [r \in 1..Len(df.rows) |-> df.rows[r][PosSeq(df.columns, name)[1]]]

\* str(i) of a number and ','.join(...) as sequences of characters.
DigitChar(d) == <<"0", "1", "2", "3", "4", "5", "6", "7", "8", "9">>[d + 1]

RECURSIVE Str(_)
Str(n) ==
    IF n < 0 THEN <<"-">> \o Str(-n)
    ELSE IF n < 10 THEN <<DigitChar(n)>>
    ELSE Str(n \div 10) \o <<DigitChar(n % 10)>>

\* ''.join(...): the pieces with nothing between them.
JoinNoSeparator(ss) == Flatten(ss)

RECURSIVE JoinComma(_)
JoinComma(ss) ==
    IF Len(ss) = 0 THEN <<>>
    ELSE IF Len(ss) = 1 THEN ss[1]
    ELSE ss[1] \o <<",">> \o JoinComma(Tail(ss))

FormatRow(row) == JoinComma([i \in 1..Len(row) |-> Str(row[i])])

\* Reading a number back from its characters.
DigitValue(ch) == (CHOOSE d \in 0..9 : DigitChar(d) = ch)

IsDigit(ch) == \E d \in 0..9 : DigitChar(d) = ch

RECURSIVE DigitsValue(_)
DigitsValue(ds) ==
    IF Len(ds) = 0 THEN 0
    ELSE 10 * DigitsValue(SubSeq(ds, 1, Len(ds) - 1)) + DigitValue(ds[Len(ds)])

\* A piece is a number when it is digits with an optional leading '-'.
IsNumber(piece) ==
    LET ds == IF Len(piece) > 0 /\ piece[1] = "-" THEN Tail(piece) ELSE piece
    IN Len(ds) > 0 /\ \A i \in 1..Len(ds) : IsDigit(ds[i])

ToNumber(piece) ==
    IF piece[1] = "-" THEN 0 - DigitsValue(Tail(piece)) ELSE DigitsValue(piece)

\* json.loads(results) of a body that is one number.
JsonLoads(body) == ToNumber(body)

\* The body the endpoint answers with for a score.
ResponseBody(score) == Str(score)

\* The loop takes the rows from the last one.
NextInputFromEnd(inputs, issued) == inputs[Len(inputs) - issued]

\* for data_input in data_inputs: the input of the iteration after `issued`
\* iterations.
NextInput(inputs, issued) == inputs[issued + 1]

\* The loop body in a try block that goes on to the next row.
PropagatesPredictErrorNever(answered) == FALSE

\* predictor.predict is called outside any try block: an exception of the
\* call leaves the loop and the cell.
PropagatesPredictError(answered) == ~answered

\* sort_values(by='rating', ascending=...): quicksort is not stable, so rows of
\* equal rating may come out in any order.
InOrder(a, b, ascending) == IF ascending THEN a <= b ELSE a >= b

SortValues(df, name, ascending) ==
    LET n == Len(df.rows)
        key == Column(df, name)
    IN { [columns |-> df.columns, rows |-> [i \in 1..n |-> df.rows[p[i]]]] :
           p \in { q \in Permutations(1..n) :
                     \A i \in 1..n, j \in 1..n : i < j => InOrder(key[q[i]], key[q[j]], ascending) } }

\* df.head(k)
HeadRows(df, k) ==
    [columns |-> df.columns,
     rows |-> SubSeq(df.rows, 1, IF k < Len(df.rows) THEN k ELSE Len(df.rows))]

\* The same cell with sort_values' default order (ascending).
PlaylistsAscending(df, k) == { HeadRows(s, k) : s \in SortValues(df, Name("rating"), TRUE) }

\* inference_df.sort_values(by='rating', ascending=False).head(playlist_length)
Playlists(df, k) == { HeadRows(s, k) : s \in SortValues(df, Name("rating"), FALSE) }

\* The same except block testing for the code get_object answers with.
RunsExplainabilityOnNoSuchKey(code) == code = "NoSuchKey"

\* except block of the download: run_explainability exactly for code '404'.
RunsExplainability(code) == code = "404"

\* What s3_client.download_file can answer.
DownloadOutcomes(exists) ==
    IF exists THEN {"ok", OtherS3Code, "NoResponse"}
    ELSE {"404", OtherS3Code, "NoResponse"}

EmptyFrame == [columns |-> <<>>, rows |-> <<>>]

\* label = 'rating'
label == Name("rating")

\* headers=[label]+feature_names of the explainability DataConfig.
Headers(names) == <<label>> \o names

\* The frame written as inference_df['rating'] = predictions left it: the
\* rating last.
CsvColumnOrderRatingLast(names) == names \o <<Name("rating")>>

\* inference_df = inference_df[['rating']+feature_names]
CsvColumnOrder(names) == <<Name("rating")>> \o names

\* Bound on the runs of the inference cells against one output path.
MaxInferRuns == 2

\* The data an out.csv explains: none when there is no out.csv, and data of a
\* run before the ones modelled for an out.csv that was there from the start.
NoData == <<>>
EarlierData == << <<0>> >>

\* A lookup under a key that is derived from the prediction data.
FoundForData(exists, explained, csv) == exists /\ explained = csv

\* explainability_output_path = f's3://{bucket}/{prefix}/clarify-output/explainability'
\* Key = f'{prefix}/clarify-output/explainability/explanations_shap/out.csv'
\* The key names no input: the object is found when one is there.
FoundAtPath(exists, explained, csv) == exists

InferIdle ==
    /\ df_tracks = EmptyFrame
    /\ df_user = <<>>
    /\ feature_names = <<>>
    /\ artifact = FALSE
    /\ artifactOf = NoData
    /\ artifactAtDownload = "none"
    /\ history = <<>>
    /\ inferPc = "idle"
    /\ inferAbortAt = "none"
    /\ data = EmptyFrame
    /\ inference_df = EmptyFrame
    /\ data_inputs = <<>>
    /\ predictions = <<>>
    /\ requests = <<>>
    /\ scores = <<>>
    /\ predCsv = <<>>
    /\ predColumns = <<>>
    /\ downloadOutcome = "none"
    /\ explainJobs = 0
    /\ playlist_length = 0
    /\ playlist = EmptyFrame

\* The cells before the join have answered: the tracks sample, the user's
\* record and the trained column order are in hand; out.csv of an earlier
\* explainability job may or may not be at its path.
InferInit ==
    /\ \E tf \in InjectiveSeqs(TrackFeaturePool, 0, MaxCols), n \in 0..MaxRows :
         df_tracks = TracksFrame(tf, n)
    /\ \E uf \in InjectiveSeqs(UserFeaturePool, 0, MaxCols) : df_user = UserRecord(uf)
    /\ \E q \in InjectiveSeqs(TrainedColumnPool, 1, MaxCols) :
         feature_names = [j \in 1..Len(q) |-> Name(q[j])]
    /\ artifact \in BOOLEAN
    /\ artifactOf = IF artifact THEN EarlierData ELSE NoData
    /\ artifactAtDownload = "none"
    /\ history = <<>>
    /\ inferPc = "join"
    /\ inferAbortAt = "none"
    /\ data = EmptyFrame
    /\ inference_df = EmptyFrame
    /\ data_inputs = <<>>
    /\ predictions = <<>>
    /\ requests = <<>>
    /\ scores = <<>>
    /\ predCsv = <<>>
    /\ predColumns = <<>>
    /\ downloadOutcome = "none"
    /\ explainJobs = 0
    /\ playlist_length = 0
    /\ playlist = EmptyFrame

InferFrame ==
    UNCHANGED <<persisted, ingestVars, deployVars, wireVars, trainVars, schemaVars, df_tracks, df_user,
                feature_names, history>>

InferAbort(cell) ==
    /\ inferPc' = "aborted"
    /\ inferAbortAt' = cell

\* data = df_tracks.merge(pd.DataFrame(df_user['ValueAsString']).T, how='cross')
\* data.columns = [c.lower() for c in data.columns]
\* inference_df = data[feature_names]
CrossJoin ==
    /\ InferFrame
    /\ inferPc = "join"
    /\ LET merged == LowerColumns(MergeCross(df_tracks, Transposed(df_user)))
       IN /\ data' = merged
          /\ IF HasColumns(merged, feature_names)
             THEN /\ inference_df' = GetColumns(merged, feature_names)
                  /\ inferPc' = "format"
                  /\ UNCHANGED inferAbortAt
             ELSE /\ InferAbort("join")
                  /\ UNCHANGED inference_df
    /\ UNCHANGED <<artifact, artifactOf, data_inputs, predictions, requests, scores,
                   predCsv, predColumns, downloadOutcome, artifactAtDownload, explainJobs,
                   playlist_length, playlist>>

\* data_inputs = [','.join([str(i) for i in row]) for row in inference_df.values]
FormatRows ==
    /\ InferFrame
    /\ inferPc = "format"
    /\ data_inputs' = [r \in 1..Len(inference_df.rows) |-> FormatRow(inference_df.rows[r])]
    /\ inferPc' = "predict"
    /\ UNCHANGED <<artifact, artifactOf, inferAbortAt, data, inference_df, predictions,
                   requests, scores, predCsv, predColumns, downloadOutcome, artifactAtDownload,
                   explainJobs, playlist_length, playlist>>

\* predictions = []
\* for data_input in data_inputs:
\*     results = predictor.predict(data_input, initial_args = {...})
\*     prediction = json.loads(results); predictions.append(prediction)
\* One iteration: the endpoint answers with a score or the call raises.
Predict ==
    /\ InferFrame
    /\ inferPc = "predict"
    /\ Len(requests) < Len(data_inputs)
    /\ \E answered \in BOOLEAN, score \in Scores :
         /\ requests' = Append(requests,
                               [input |-> NextInput(data_inputs, Len(requests)),
                                answered |-> answered])
         /\ IF answered
            THEN /\ scores' = Append(scores, score)
                 /\ predictions' = Append(predictions, JsonLoads(ResponseBody(score)))
                 /\ UNCHANGED <<inferPc, inferAbortAt>>
            ELSE /\ UNCHANGED <<scores, predictions>>
                 /\ IF PropagatesPredictError(answered)
                    THEN InferAbort("predict")
                    ELSE UNCHANGED <<inferPc, inferAbortAt>>
    /\ UNCHANGED <<artifact, artifactOf, data, inference_df, data_inputs, predCsv, predColumns,
                   downloadOutcome, artifactAtDownload, explainJobs, playlist_length,
                   playlist>>

\* print(f'Predicted rating for user ...', prediction): after a loop over no
\* rows `prediction` is whatever the kernel holds: undefined (NameError) or
\* the value an earlier run left.
PredictEnd ==
    /\ InferFrame
    /\ inferPc = "predict"
    /\ Len(requests) = Len(data_inputs)
    /\ \E defined \in BOOLEAN :
         IF Len(predictions) > 0 \/ defined
         THEN /\ inferPc' = "attach"
              /\ UNCHANGED inferAbortAt
         ELSE InferAbort("predict")
    /\ UNCHANGED <<artifact, artifactOf, data, inference_df, data_inputs, predictions,
                   requests, scores, predCsv, predColumns, downloadOutcome, artifactAtDownload,
                   explainJobs, playlist_length, playlist>>

\* inference_df['rating'] = predictions
\* inference_df = inference_df[['rating']+feature_names]
\* to_csv(header=False, index=False); s3_client.upload_file(...)
AttachRatings ==
    /\ InferFrame
    /\ inferPc = "attach"
    /\ inference_df' = GetColumns(WithColumn(inference_df, Name("rating"), predictions),
                                  CsvColumnOrder(feature_names))
    /\ \E uploaded \in BOOLEAN :
         IF uploaded
         THEN /\ predCsv' = inference_df'.rows
              /\ predColumns' = inference_df'.columns
              /\ inferPc' = "train"
              /\ UNCHANGED inferAbortAt
         ELSE /\ InferAbort("attach")
              /\ UNCHANGED <<predCsv, predColumns>>
    /\ UNCHANGED <<artifact, artifactOf, data, data_inputs, predictions, requests,
                   scores, downloadOutcome, artifactAtDownload, explainJobs,
                   playlist_length, playlist>>

\* df_train = pd.read_csv(train_data_uri)
ReadTrainData ==
    /\ InferFrame
    /\ inferPc = "train"
    /\ \E answered \in BOOLEAN :
         IF answered
         THEN /\ inferPc' = "explain"
              /\ UNCHANGED inferAbortAt
         ELSE InferAbort("train")
    /\ UNCHANGED <<artifact, artifactOf, data, inference_df, data_inputs, predictions,
                   requests, scores, predCsv, predColumns, downloadOutcome, artifactAtDownload,
                   explainJobs, playlist_length, playlist>>

\* try: s3_client.download_file(... explanations_shap/out.csv ...)
\* except Exception as e: if e.response[...] == '404': run_explainability(...)
Explain ==
    /\ InferFrame
    /\ inferPc = "explain"
    /\ artifactAtDownload' = IF artifact THEN "present" ELSE "absent"
    /\ \E o \in DownloadOutcomes(FoundAtPath(artifact, artifactOf, predCsv)) :
         /\ downloadOutcome' = o
         /\ IF o = "NoResponse"
            THEN /\ InferAbort("explain")
                 /\ UNCHANGED explainJobs
            ELSE IF o # "ok" /\ RunsExplainability(o)
            THEN /\ explainJobs' = explainJobs + 1
                 /\ inferPc' = "explaining"
                 /\ UNCHANGED inferAbortAt
            ELSE /\ inferPc' = "trackid"
                 /\ UNCHANGED <<inferAbortAt, explainJobs>>
    /\ UNCHANGED <<artifact, artifactOf, data, inference_df, data_inputs, predictions,
                   requests, scores, predCsv, predColumns, playlist_length, playlist>>

\* run_explainability waits for the job: the job writes out.csv, or fails and
\* the call raises.
ExplainabilityJobEnds ==
    /\ InferFrame
    /\ inferPc = "explaining"
    /\ \E completed \in BOOLEAN :
         IF completed
         THEN /\ artifact' = TRUE
              /\ artifactOf' = predCsv
              /\ inferPc' = "trackid"
              /\ UNCHANGED inferAbortAt
         ELSE /\ InferAbort("explain")
              /\ UNCHANGED <<artifact, artifactOf>>
    /\ UNCHANGED <<data, inference_df, data_inputs, predictions, requests, scores,
                   predCsv, predColumns, downloadOutcome, artifactAtDownload, explainJobs,
                   playlist_length, playlist>>

\* inference_df['trackid'] = data['trackid']
AttachTrackId ==
    /\ InferFrame
    /\ inferPc = "trackid"
    /\ IF Len(PosSeq(data.columns, Name("trackid"))) = 1
       THEN /\ inference_df' = WithColumn(inference_df, Name("trackid"),
                                          Column(data, Name("trackid")))
            /\ inferPc' = "playlist"
            /\ UNCHANGED inferAbortAt
       ELSE /\ InferAbort("trackid")
            /\ UNCHANGED inference_df
    /\ UNCHANGED <<artifact, artifactOf, data, data_inputs, predictions, requests,
                   scores, predCsv, predColumns, downloadOutcome, artifactAtDownload, explainJobs,
                   playlist_length, playlist>>

\* playlist_length = 10
\* playlist = inference_df.sort_values(by='rating', ascending=False).head(playlist_length)
MakePlaylist ==
    /\ InferFrame
    /\ inferPc = "playlist"
    /\ \E k \in PlaylistLengths :
         /\ playlist_length' = k
         /\ playlist' \in Playlists(inference_df, k)
    /\ inferPc' = "display"
    /\ UNCHANGED <<artifact, artifactOf, inferAbortAt, data, inference_df, data_inputs,
                   predictions, requests, scores, predCsv, predColumns, downloadOutcome,
                   artifactAtDownload, explainJobs>>

\* local_explanations_out = pd.read_csv(.../explanations_shap/out.csv)
\* print("Model prediction:", playlist.iloc[0, 0])
Display ==
    /\ InferFrame
    /\ inferPc = "display"
    /\ IF artifact /\ Len(playlist.rows) > 0
       THEN /\ inferPc' = "done"
            /\ UNCHANGED inferAbortAt
       ELSE InferAbort("display")
    /\ UNCHANGED <<artifact, artifactOf, data, inference_df, data_inputs, predictions,
                   requests, scores, predCsv, predColumns, downloadOutcome, artifactAtDownload,
                   explainJobs, playlist_length, playlist>>

\* The inference cells are run again in the same kernel session against the
\* same tracks sample, user record and output path; what the run before did
\* is kept as a record.
RunRecord ==
    [predCsv |-> predCsv, downloadOutcome |-> downloadOutcome,
     artifactAtDownload |-> artifactAtDownload, explainJobs |-> explainJobs]

InferRerun ==
    /\ UNCHANGED <<persisted, ingestVars, deployVars, wireVars, trainVars, schemaVars, df_tracks, df_user,
                   feature_names, artifact, artifactOf>>
    /\ inferPc = "done"
    /\ Len(history) + 1 < MaxInferRuns
    /\ history' = Append(history, RunRecord)
    /\ inferPc' = "join"
    /\ inferAbortAt' = "none"
    /\ artifactAtDownload' = "none"
    /\ data' = EmptyFrame
    /\ inference_df' = EmptyFrame
    /\ data_inputs' = <<>>
    /\ predictions' = <<>>
    /\ requests' = <<>>
    /\ scores' = <<>>
    /\ predCsv' = <<>>
    /\ predColumns' = <<>>
    /\ downloadOutcome' = "none"
    /\ explainJobs' = 0
    /\ playlist_length' = 0
    /\ playlist' = EmptyFrame

InferNext ==
    \/ CrossJoin
    \/ FormatRows
    \/ Predict
    \/ PredictEnd
    \/ AttachRatings
    \/ ReadTrainData
    \/ Explain
    \/ ExplainabilityJobEnds
    \/ AttachTrackId
    \/ MakePlaylist
    \/ Display

---------------------------------------------------------------------------
(* 04: the wire format of one inference row.  The notebook writes the line *)
(* (data_inputs); the receiver of the text/csv body splits it on ',' and   *)
(* converts every piece to a number.                                       *)

\* Bound on the number of values of a row.
MaxWireLen == 3

\* Values of a row: negative, zero, one digit, several digits.
WireValues == {-10, -1, 0, 7, 10, 42, 100, 101}

WireRows == UNION { [1..k -> WireValues] : k \in 1..MaxWireLen }

\* line.split(','): the pieces between the commas (one piece, possibly
\* empty, when there is no comma).
RECURSIVE Split(_)
Split(line) ==
    IF \A i \in 1..Len(line) : line[i] # ","
    THEN <<line>>
    ELSE LET c == CHOOSE i \in 1..Len(line) :
                     line[i] = "," /\ \A j \in 1..(i - 1) : line[j] # ","
         IN <<SubSeq(line, 1, c - 1)>> \o Split(SubSeq(line, c + 1, Len(line)))

\* The receiver's reading of a line: the numbers, or a ValueError.
ParseRow(line) ==
    LET pieces == Split(line)
    IN IF \A i \in 1..Len(pieces) : IsNumber(pieces[i])
       THEN [ok |-> TRUE, values |-> [i \in 1..Len(pieces) |-> ToNumber(pieces[i])]]
       ELSE [ok |-> FALSE, values |-> <<>>]

WireIdle ==
    /\ wireRow = <<>>
    /\ wire = <<>>
    /\ parsedRow = [ok |-> FALSE, values |-> <<>>]
    /\ wirePc = "idle"

WireInit ==
    /\ wireRow \in WireRows
    /\ wire = <<>>
    /\ parsedRow = [ok |-> FALSE, values |-> <<>>]
    /\ wirePc = "format"

WireFrame == UNCHANGED <<persisted, ingestVars, deployVars, inferVars, trainVars, schemaVars, wireRow>>

\* ','.join([str(i) for i in row])
FormatWire ==
    /\ WireFrame
    /\ wirePc = "format"
    /\ wire' = FormatRow(wireRow)
    /\ wirePc' = "sent"
    /\ UNCHANGED parsedRow

\* The receiver reads the line.
ParseWire ==
    /\ WireFrame
    /\ wirePc = "sent"
    /\ parsedRow' = ParseRow(wire)
    /\ wirePc' = "parsed"
    /\ UNCHANGED wire

WireNext ==
    \/ FormatWire
    \/ ParseWire

---------------------------------------------------------------------------
(* The GPT-J model-parallel training notebook: hyperparameters, the        *)
(* distribution blocks, the estimator and fit().                           *)

\* "Setup Hyperparameters": 16-way pipeline parallelism and 2-way data
\* parallel on a cluster of 4 instances with 8 processes each.
pipeline_parallel_degree == 16
data_parallel_degree == 2
instance_count == 4
process_per_host == 8
microbatches == 2

\* hyperparameters = {...}: the entries the distribution block reads.
Hyperparameters ==
    [pipeline_parallel_degree |-> pipeline_parallel_degree,
     ddp |-> TRUE,
     shard_optimizer_state |-> 1,
     prescaled_batch |-> 0,
     optimize |-> "memory"]

NoHyperparameters ==
    [pipeline_parallel_degree |-> 0, ddp |-> FALSE, shard_optimizer_state |-> 0,
     prescaled_batch |-> 0, optimize |-> ""]

\* A block that passes the number of microbatches as the partitions.
ModelParallelParametersMicrobatches(hp) ==
    [ddp |-> hp.ddp,
     microbatches |-> microbatches,
     partitions |-> microbatches,
     shard_optimizer_state |-> hp.shard_optimizer_state > 0,
     prescaled_batch |-> hp.prescaled_batch > 0,
     optimize |-> hp.optimize]

\* smdistributed["modelparallel"]["parameters"]
ModelParallelParameters(hp) ==
    [ddp |-> hp.ddp,
     microbatches |-> microbatches,
     partitions |-> hp.pipeline_parallel_degree,
     shard_optimizer_state |-> hp.shard_optimizer_state > 0,
     prescaled_batch |-> hp.prescaled_batch > 0,
     optimize |-> hp.optimize]

\* distribution = {"mpi": mpi, "smdistributed": smdistributed}
Distribution(hp) ==
    [processes_per_host |-> process_per_host, parameters |-> ModelParallelParameters(hp)]

NoDistribution ==
    [processes_per_host |-> 0, parameters |-> ModelParallelParameters(NoHyperparameters)]

\* What the estimator submits: the cluster shape and the distribution.
TrainingJob(hp, dist) ==
    [instance_count |-> instance_count, distribution |-> dist, hyperparameters |-> hp]

NoTrainingJob == TrainingJob(NoHyperparameters, NoDistribution)

TrainIdle ==
    /\ trainPc = [r \in Runs |-> "closed"]
    /\ hyperparameters = [r \in Runs |-> NoHyperparameters]
    /\ distribution = [r \in Runs |-> NoDistribution]
    /\ trainingJob = [r \in Runs |-> NoTrainingJob]
    /\ trainingStatus = [r \in Runs |-> "none"]

TrainInit ==
    /\ trainPc = [r \in Runs |-> "idle"]
    /\ hyperparameters = [r \in Runs |-> NoHyperparameters]
    /\ distribution = [r \in Runs |-> NoDistribution]
    /\ trainingJob = [r \in Runs |-> NoTrainingJob]
    /\ trainingStatus = [r \in Runs |-> "none"]

TrainFrame ==
    UNCHANGED <<persisted, ingestVars, deployVars, inferVars, wireVars, schemaVars>>

TrainFinished(r) == trainPc[r] \in {"done", "aborted"}

\* Run r starts once the previous run has ended; the cells before the
\* hyperparameters (pip install, role, session) answer or raise.
TrainStartRun(r) ==
    /\ TrainFrame
    /\ trainPc[r] = "idle"
    /\ r > 1 => TrainFinished(r - 1)
    /\ \E answered \in BOOLEAN :
         trainPc' = [trainPc EXCEPT ![r] = IF answered THEN "hyperparameters" ELSE "aborted"]
    /\ UNCHANGED <<hyperparameters, distribution, trainingJob, trainingStatus>>

\* pipeline_parallel_degree = 16; ddp = True; hyperparameters = {...}
SetupHyperparameters(r) ==
    /\ TrainFrame
    /\ trainPc[r] = "hyperparameters"
    /\ hyperparameters' = [hyperparameters EXCEPT ![r] = Hyperparameters]
    /\ trainPc' = [trainPc EXCEPT ![r] = "distribution"]
    /\ UNCHANGED <<distribution, trainingJob, trainingStatus>>

\* instance_count = 4; process_per_host = 8; mpi = {...}; smdistributed = {...}
SetupDistribution(r) ==
    /\ TrainFrame
    /\ trainPc[r] = "distribution"
    /\ distribution' = [distribution EXCEPT ![r] = Distribution(hyperparameters[r])]
    /\ trainPc' = [trainPc EXCEPT ![r] = "fit"]
    /\ UNCHANGED <<hyperparameters, trainingJob, trainingStatus>>

\* smp_estimator = PyTorch(...); smp_estimator.fit(logs=True): the job is
\* submitted, or the service refuses it and fit raises.
Fit(r) ==
    /\ TrainFrame
    /\ trainPc[r] = "fit"
    /\ \E accepted \in BOOLEAN :
         IF accepted
         THEN /\ trainingJob' =
                    [trainingJob EXCEPT ![r] = TrainingJob(hyperparameters[r], distribution[r])]
              /\ trainingStatus' = [trainingStatus EXCEPT ![r] = "InProgress"]
              /\ trainPc' = [trainPc EXCEPT ![r] = "training"]
         ELSE /\ trainPc' = [trainPc EXCEPT ![r] = "aborted"]
              /\ UNCHANGED <<trainingJob, trainingStatus>>
    /\ UNCHANGED <<hyperparameters, distribution>>

\* The training service ends the job.
TrainingEnds(r) ==
    /\ TrainFrame
    /\ trainingStatus[r] = "InProgress"
    /\ \E st \in {"Completed", "Failed", "Stopped"} :
         trainingStatus' = [trainingStatus EXCEPT ![r] = st]
    /\ UNCHANGED <<trainPc, hyperparameters, distribution, trainingJob>>

\* fit() blocks until the job is in a terminal state and raises when the job
\* failed.
FitReturns(r) ==
    /\ TrainFrame
    /\ trainPc[r] = "training"
    /\ trainingStatus[r] # "InProgress"
    /\ trainPc' = [trainPc EXCEPT ![r] = IF trainingStatus[r] = "Failed" THEN "aborted" ELSE "done"]
    /\ UNCHANGED <<hyperparameters, distribution, trainingJob, trainingStatus>>

TrainNext ==
    \E r \in Runs :
        \/ TrainStartRun(r)
        \/ SetupHyperparameters(r)
        \/ SetupDistribution(r)
        \/ Fit(r)
        \/ TrainingEnds(r)
        \/ FitReturns(r)

---------------------------------------------------------------------------
(* 02c: the feature definitions built from the export's column schemas.    *)

\* Bound on the number of columns of a schema list.
MaxSchemaLen == 2

\* column_schemas as the notebook has it.
NotebookColumnSchemas ==
    << [name |-> "ratingEventId", type |-> "string"],
       [name |-> "ts",            type |-> "long"],
       [name |-> "userId",        type |-> "long"],
       [name |-> "trackId",       type |-> "string"],
       [name |-> "sessionId",     type |-> "long"],
       [name |-> "itemInSession", type |-> "long"],
       [name |-> "Rating",        type |-> "float"],
       [name |-> "EventTime",     type |-> "float"] >>

\* Column types of a Data Wrangler export: the two the mapping names and
\* others, and names for the columns of the lists explored beside the
\* notebook's own.
ColumnTypes == {"float", "long", "string", "bool", "date"}
ColumnNames == {"Rating", "ts"}

ColumnSchemaLists ==
    {NotebookColumnSchemas} \cup
    UNION { [1..k -> [name : ColumnNames, type : ColumnTypes]] : k \in 0..MaxSchemaLen }

\* A mapping that takes 'float' to Integral as well.
FeatureTypeFloatIntegral(type) ==
    IF type = "float" THEN "Integral"
    ELSE IF type = "long" THEN "Integral"
    ELSE "String"

\* column_to_feature_type_mapping.get(column_schema['type'], default_feature_type)
FeatureType(type) ==
    IF type = "float" THEN "Fractional"
    ELSE IF type = "long" THEN "Integral"
    ELSE "String"

\* [FeatureDefinition(feature_name=..., feature_type=...) for column_schema in column_schemas]
FeatureDefinitions(schemas) ==
    [i \in 1..Len(schemas) |->
        [feature_name |-> schemas[i].name, feature_type |-> FeatureType(schemas[i].type)]]

SchemaIdle ==
    /\ column_schemas = <<>>
    /\ feature_definitions = <<>>
    /\ schemaPc = "idle"

SchemaInit ==
    /\ column_schemas \in ColumnSchemaLists
    /\ feature_definitions = <<>>
    /\ schemaPc = "schemas"

BuildFeatureDefinitions ==
    /\ UNCHANGED <<persisted, ingestVars, deployVars, inferVars, wireVars, trainVars,
                   column_schemas>>
    /\ schemaPc = "schemas"
    /\ feature_definitions' = FeatureDefinitions(column_schemas)
    /\ schemaPc' = "built"

SchemaNext == BuildFeatureDefinitions

---------------------------------------------------------------------------
(* Specifications: consecutive runs of one notebook section, the rest of   *)
(* the state left as it is.                                                *)

InitIngestRuns == IngestInit /\ DeployIdle /\ InferIdle /\ WireIdle /\ TrainIdle /\ SchemaIdle

SpecIngest == InitIngestRuns /\ [][IngestNext]_vars

\* Two runs of the export notebook, one after the other or interleaved.
InitIngestConcurrent ==
    IngestConcurrentInit /\ DeployIdle /\ InferIdle /\ WireIdle /\ TrainIdle /\ SchemaIdle

IngestConcurrentNext == IngestNext \/ \E r \in Runs : StartConcurrentRun(r)

SpecIngestConcurrent == InitIngestConcurrent /\ [][IngestConcurrentNext]_vars

\* The same runs where the notebook's own steps of the wait helper are taken
\* when they can be: time.sleep(5) returns and the loop goes on, the test
\* after the loop follows the loop.  Nothing is assumed of the store.
InitIngestFair == IngestInit /\ DeployIdle /\ InferIdle /\ WireIdle /\ TrainIdle /\ SchemaIdle

SpecIngestFair ==
    /\ InitIngestFair
    /\ [][IngestNext]_vars
    /\ \A r \in Runs : WF_vars(WaitPoll(r)) /\ WF_vars(WaitExit(r))

InitDeployRuns == IngestIdle /\ DeployInit /\ InferIdle /\ WireIdle /\ TrainIdle /\ SchemaIdle

SpecDeploy == InitDeployRuns /\ [][DeployNext]_vars

\* The notebooks before have run: the namespace holds every key.
ParamsComplete ==
    persisted = [EarlierStagesParams EXCEPT !["fg_name_ratings"] = feature_group_name,
                                            !["endpoint_name"] = EndpointNameOf(model_name)]

InitInferRun ==
    IngestIdle /\ DeployIdle /\ InferInit /\ WireIdle /\ TrainIdle /\ SchemaIdle /\ ParamsComplete

SpecInfer == InitInferRun /\ [][InferNext]_vars

\* Runs of the inference cells, one after the other, over one tracks sample
\* of MaxRows rows and one trained column order.
InitInferReruns ==
    /\ IngestIdle /\ DeployIdle /\ InferInit /\ WireIdle /\ TrainIdle /\ SchemaIdle /\ ParamsComplete
    /\ df_tracks = TracksFrame(<<"tempo">>, MaxRows)
    /\ df_user = UserRecord(<<"energy_5star">>)
    /\ feature_names = <<Name("tempo"), Name("energy_5star")>>

InferRerunsNext == InferNext \/ InferRerun

SpecInferReruns == InitInferReruns /\ [][InferRerunsNext]_vars

InitWire ==
    IngestIdle /\ DeployIdle /\ InferIdle /\ WireInit /\ TrainIdle /\ SchemaIdle /\ ParamsComplete

InitTrainRuns ==
    IngestIdle /\ DeployIdle /\ InferIdle /\ WireIdle /\ TrainInit /\ SchemaIdle /\ ParamsComplete

SpecTrain == InitTrainRuns /\ [][TrainNext]_vars

\* The feature definition cells over the notebook's column schemas and over
\* every short list of columns.
InitSchema ==
    IngestIdle /\ DeployIdle /\ InferIdle /\ WireIdle /\ TrainIdle /\ SchemaInit
    /\ ParamsComplete

SpecSchema == InitSchema /\ [][SchemaNext]_vars

\* Runs of the export notebook, or runs of the deploy notebook.
InitStages == InitIngestRuns \/ InitDeployRuns

StagesNext == IngestNext \/ DeployNext

SpecStages == InitStages /\ [][StagesNext]_vars

SpecWire == InitWire /\ [][WireNext]_vars

---------------------------------------------------------------------------
(* Claims about the feature group export (checked under SpecIngest).       *)

\* Run r went past the gate of the last cell.
PassedGate(r) == pc[r] \in {"jobwait", "done"} \/ abortAt[r] = "jobwait"

\* C1: running the stage twice in sequence is a no-op the second time: when
\* the first two runs have both completed, create was called exactly once and
\* exactly one processing job was submitted, both in the first run.
C1_SecondRunIsNoOp ==
    (pc[1] = "done" /\ pc[2] = "done") =>
        /\ createCalls[1] = 1 /\ jobsSubmitted[1] = 1
        /\ createCalls[2] = 0 /\ jobsSubmitted[2] = 0

\* C2: the existence check classifies its outcome: describe succeeds ->
\* existed = True and no create; ResourceNotFound -> existed = False and create
\* is called exactly once; ResourceInUse -> existed = True and no create.
C2_ExistenceCheckClassification ==
    \A r \in Runs :
        /\ checkOutcome[r] = "Found" =>
               feature_group_exists[r] = "True" /\ createCalls[r] = 0
        /\ checkOutcome[r] = "ResourceNotFound" =>
               /\ feature_group_exists[r] = "False"
               /\ createCalls[r] = IF pc[r] = "create" THEN 0 ELSE 1
        /\ checkOutcome[r] = "ResourceInUse" =>
               feature_group_exists[r] = "True" /\ createCalls[r] = 0

\* C2 witness: the three outcomes have each been classified, the create of the
\* ResourceNotFound run included.
C2_Witness ==
    /\ checkOutcome[1] = "ResourceNotFound" /\ createCalls[1] = 1
    /\ checkOutcome[2] = "Found" /\ pc[2] = "done"
    /\ checkOutcome[3] = "ResourceInUse" /\ pc[3] = "done"

\* C3: an existence check that fails with a code that is neither
\* ResourceNotFound nor ResourceInUse is fatal: the run is aborted at the check,
\* it creates no feature group and submits no processing job.
C3_UnclassifiedErrorIsFatal ==
    \A r \in Runs :
        checkOutcome[r] = OtherCode =>
            /\ pc[r] = "aborted" /\ abortAt[r] = "check"
            /\ createCalls[r] = 0
            /\ jobsSubmitted[r] = 0

\* C4: in each run that reaches the last cell a processing job is submitted if
\* and only if the feature group did not exist at that run's existence check:
\* exactly one job when it did not exist, none when it existed.
C4_JobIffAbsentAtCheck ==
    \A r \in Runs :
        PassedGate(r) =>
            jobsSubmitted[r] = IF fgAtCheck[r] = "Absent" THEN 1 ELSE 0

\* C5: wait_for_feature_group_creation_complete returns normally only when the
\* last status it observed is Created; when the status it observes has left
\* Creating for another value the run is aborted in the wait cell and submits
\* no processing job.
C5_WaitReturnsOnlyOnCreated ==
    \A r \in Runs :
        /\ (pc[r] \in {"ingest", "jobwait", "done"} \/ abortAt[r] \in {"ingest", "jobwait"})
               => status[r] = "Created"
        /\ (pc[r] # "poll" /\ status[r] \notin {"none", "Creating", "Created"})
               => /\ pc[r] = "aborted" /\ abortAt[r] = "wait"
                  /\ jobsSubmitted[r] = 0

\* C5 witness: a run created the group, observed CreateFailed in the wait and
\* was aborted there.
C5_Witness ==
    \E r \in Runs :
        /\ status[r] = "CreateFailed" /\ abortAt[r] = "wait"
        /\ createCalls[r] = 1

---------------------------------------------------------------------------
(* Claims about the deploy section (checked under SpecDeploy).             *)

\* Run r went past the cell that deploys or uses the existing endpoint.
PastCreateEndpoint(r) ==
    \/ deployPc[r] \in {"deploying", "approve", "predictor", "done"}
    \/ deployAbortAt[r] \in {"create_endpoint", "approve"}

C7_DeployOnlyWhenNoEndpointExists ==
    /\ \A r \in Runs : deployCalls[r] > 0 => statusAtDeploy[r] = "None"
    /\ endpointsCreated <= 1


---------------------------------------------------------------------------
(* Claims about inference, playlist and explainability (checked under      *)
(* SpecInfer).                                                             *)

\* inference_df is as the join cell made it (no rating column yet).
JoinedOnly == inferPc \in {"format", "predict", "attach"} \/ inferAbortAt = "predict"

\* The label f repeated n times.
Repeated(f, n) == [k \in 1..n |-> f]

PlaylistMade == inferPc \in {"display", "done"} \/ inferAbortAt = "display"

RatingOf(df, row) == row[PosSeq(df.columns, Name("rating"))[1]]

\* C9: the playlist is the scored rows sorted descending by rating and cut to
\* playlist_length: its length is min(K, N), its ratings do not increase, and
\* no scored row outside it has a greater rating than a row inside it.
C9_PlaylistIsTopK ==
    PlaylistMade =>
        LET N == Len(inference_df.rows)
            K == playlist_length
            ratings == Column(playlist, Name("rating"))
        IN /\ Len(playlist.rows) = IF K < N THEN K ELSE N
           /\ \A i, j \in 1..Len(playlist.rows) : i < j => ratings[i] >= ratings[j]
           /\ Range(playlist.rows) \subseteq Range(inference_df.rows)
           /\ \A out \in Range(inference_df.rows) \ Range(playlist.rows) :
                \A in \in Range(playlist.rows) :
                    RatingOf(inference_df, out) <= RatingOf(playlist, in)

\* C9 witness: two scored rows, the second rated higher, cut to a playlist of
\* one.
C9_Witness ==
    /\ inferPc = "done"
    /\ predictions = <<1, 2>>
    /\ playlist_length = 1
    /\ Len(playlist.rows) = 1

\* C10: when the output artifact is at its path (the download succeeds) no
\* explainability job is submitted; when it is not (the download fails with
\* '404') exactly one is submitted.
C10_ExplainabilityReuse ==
    /\ downloadOutcome = "ok" => explainJobs = 0
    /\ downloadOutcome = "404" => explainJobs = 1

\* C10 witness: the artifact was absent, one job was submitted and wrote it,
\* and the run completed.
C10_Witness ==
    /\ downloadOutcome = "404"
    /\ explainJobs = 1
    /\ artifact
    /\ inferPc = "done"


---------------------------------------------------------------------------
(* Claims about the wire format (checked under SpecWire).                  *)

\* C11: formatting a numeric row to the wire format (str of every value,
\* joined with ',') and parsing it back (split on ',', every piece converted
\* to a number) yields the original values in the original order.
C11_WireRoundTrip ==
    wirePc = "parsed" => (parsedRow.ok /\ parsedRow.values = wireRow)

\* C11 witness: a row of three values, among them a negative one and one of
\* several digits, has been sent and read back.
C11_Witness ==
    /\ wirePc = "parsed"
    /\ wireRow = <<-10, 0, 101>>
    /\ parsedRow.values = wireRow

---------------------------------------------------------------------------
(* Claims about the parameters (checked under SpecStages) and the guard    *)
(* of the export notebook (checked under SpecIngest).                      *)

\* Run q of the export / deploy notebook has added its key and stored.
StoredParams(q) ==
    /\ pc[q] \notin {"closed", "idle", "params", "guard", "store"}
    /\ abortAt[q] \notin {"params", "guard", "store"}

DeployStoredParams(q) ==
    /\ deployPc[q] \notin {"closed", "idle", "params", "store"}
    /\ deployAbortAt[q] \notin {"params", "store"}

C13_MissingKeyFailsAtRead ==
    \A r \in Runs :
        /\ (pc[r] \notin {"closed", "idle", "params"}
               /\ \E k \in IngestRequiredKeys : persisted[k] = Missing) =>
              /\ pc[r] = "aborted" /\ abortAt[r] = "params"
              /\ checkOutcome[r] = "none"
              /\ createCalls[r] = 0
              /\ jobsSubmitted[r] = 0
        /\ (deployPc[r] \notin {"closed", "idle", "params"}
               /\ \E k \in DeployRequiredKeys : persisted[k] = Missing) =>
              /\ deployPc[r] = "aborted" /\ deployAbortAt[r] = "params"
              /\ endpoint_list[r] = {}
              /\ deployCalls[r] = 0
              /\ predictor[r] = <<>>

\* C13 witness: the namespace is defined but lacks 'bucket'; a run of the
\* export notebook read it and stopped at that cell.
C13_Witness ==
    \E r \in Runs :
        /\ persisted["bucket"] = Missing
        /\ parameters[r] = persisted
        /\ parameters[r] # NoParams
        /\ pc[r] = "aborted" /\ abortAt[r] = "params"

\* C14: when the record identifier feature name or the event time feature
\* name is None, the run stops with SystemExit at the guard, before a feature
\* group is described or created and before a processing job is submitted.
C14_GuardAborts ==
    \A r \in Runs :
        (record_identifier_feature_name[r] = "None" \/ event_time_feature_name[r] = "None") =>
            /\ pc[r] = "aborted" /\ abortAt[r] = "guard"
            /\ checkOutcome[r] = "none"
            /\ createCalls[r] = 0
            /\ jobsSubmitted[r] = 0

\* C14 witness: the record identifier is named, the event time feature name
\* is left open, and a run has stopped at the guard.
C14_Witness ==
    \E r \in Runs :
        /\ record_identifier_feature_name[r] = "ratingEventId"
        /\ event_time_feature_name[r] = "None"
        /\ pc[r] = "aborted"

---------------------------------------------------------------------------
(* Claims about the training configuration (checked under SpecTrain).      *)

\* C15: every training job a run submits has (pipeline parallelism degree) x
\* (data parallelism degree) = total number of GPUs: 16 x 2 = instance_count
\* (4) x processes_per_host (8) = 32, and the partitions of its model-parallel
\* block are the pipeline_parallel_degree hyperparameter.
C15_ParallelismMatchesCluster ==
    \A r \in Runs :
        trainingStatus[r] # "none" =>
            LET job == trainingJob[r]
                gpus == job.instance_count * job.distribution.processes_per_host
            IN /\ job.distribution.parameters.partitions * data_parallel_degree = gpus
               /\ gpus = 32
               /\ job.instance_count = 4
               /\ job.distribution.processes_per_host = 8
               /\ job.distribution.parameters.partitions =
                      job.hyperparameters.pipeline_parallel_degree
               /\ job.hyperparameters.pipeline_parallel_degree = 16

\* C15 witness: a run submitted its job and the job completed.
C15_Witness ==
    \E r \in Runs :
        /\ trainPc[r] = "done"
        /\ trainingStatus[r] = "Completed"
        /\ trainingJob[r].distribution.parameters.partitions = 16

---------------------------------------------------------------------------
(* Claims about the wait loop (checked under SpecIngestFair).              *)

\* C17: the creation wait loop exits exactly when a status other than
\* 'Creating' was observed: the test after the loop is reached only with such
\* a status, and with such a status the loop does not poll again; while
\* 'Creating' is observed the loop is left only by an exception of describe;
\* and when the status in the store eventually leaves 'Creating' for good, a
\* run that is in the loop eventually leaves it.
C17_WaitLoopExit ==
    /\ [][\A r \in Runs : WaitExit(r) => status[r] # "Creating"]_vars
    /\ [](\A r \in Runs :
            (pc[r] = "poll" /\ status[r] # "Creating") =>
                (ENABLED WaitExit(r) /\ ~ENABLED WaitPoll(r)))
    /\ [][\A r \in Runs :
            (pc[r] = "poll" /\ status[r] = "Creating" /\ pc'[r] # "poll") =>
                (pc'[r] = "aborted" /\ status'[r] = status[r])]_vars
    /\ \A r \in Runs :
            (<>[](fgStatus # "Creating")) => [](pc[r] = "poll" => <>(pc[r] # "poll"))

\* C17 witness: a run is in the loop with 'Creating' as the last status it
\* observed while the store has finished the creation.
C17_Witness ==
    \E r \in Runs :
        /\ pc[r] = "poll"
        /\ status[r] = "Creating"
        /\ fgStatus = "Created"

\* C16: an error of a prediction call is not caught: when the call for a row
\* fails, the run stops at the prediction cell, the failed request is the last
\* one sent, no rating column is attached to inference_df and no
\* prediction_data.csv is uploaded.
C16_PredictErrorPropagates ==
    \A i \in 1..Len(requests) :
        ~requests[i].answered =>
            /\ inferPc = "aborted"
            /\ inferAbortAt = "predict"
            /\ i = Len(requests)
            /\ PosSeq(inference_df.columns, Name("rating")) = <<>>
            /\ predCsv = <<>>

\* C16 witness: the call for the first row failed and the row after it was
\* left without a request.
C16_Witness ==
    /\ Len(data_inputs) > 1
    /\ Len(requests) = 1
    /\ ~requests[1].answered
    /\ inferPc = "aborted"

\* The prediction loop has run to its end.
LoopCompleted ==
    /\ inferPc \notin {"idle", "join", "format", "predict"}
    /\ inferPc = "aborted" => inferAbortAt \notin {"join", "predict"}

\* C18: the loop sends one request per inference row, in row order; after the
\* loop there are as many predictions as rows and predictions[i] is the score
\* answered for row i; the rating attached to row i is predictions[i].
C18_OneRequestPerRowInOrder ==
    /\ Len(requests) <= Len(data_inputs)
    /\ \A i \in 1..Len(requests) : requests[i].input = data_inputs[i]
    /\ LoopCompleted =>
          /\ Len(requests) = Len(data_inputs)
          /\ Len(data_inputs) = Len(data.rows)
          /\ Len(predictions) = Len(data_inputs)
          /\ \A i \in 1..Len(requests) :
                requests[i].answered /\ predictions[i] = scores[i]
    /\ PosSeq(inference_df.columns, Name("rating")) # <<>> =>
          /\ Len(inference_df.rows) = Len(predictions)
          /\ Column(inference_df, Name("rating")) = predictions
    /\ inferPc \in {"train", "explain", "explaining"} =>
          \A i \in 1..Len(inference_df.rows) :
              FormatRow(Tail(inference_df.rows[i])) = requests[i].input

\* C18 witness: two rows with different inputs got different scores, and the
\* ratings are attached.
C18_Witness ==
    /\ inferPc = "train"
    /\ Len(requests) = 2
    /\ requests[1].input # requests[2].input
    /\ scores = <<2, 1>>
    /\ Column(inference_df, Name("rating")) = <<2, 1>>

\* C19: a download of the explainability output that fails with a service
\* error whose code is not '404' is fatal: the run is aborted at the
\* explainability cell and submits no explainability job.
C19_OtherDownloadErrorIsFatal ==
    downloadOutcome = OtherS3Code =>
        /\ inferPc = "aborted"
        /\ inferAbortAt = "explain"
        /\ explainJobs = 0

\* The runs so far, the current one last.
RunRecords == Append(history, RunRecord)

\* The download was answered by the service: the object, or code '404'.
Answered(rec) == rec.downloadOutcome \in {"ok", "404"}

\* C20: whether a run reuses the explainability output depends only on
\* whether an object is at the fixed output path: two runs that found the same
\* presence of the object decide alike, whatever their prediction data; with
\* the object present both reuse it and neither submits a job.
C20_ReuseDependsOnlyOnPath ==
    \A a, b \in 1..Len(RunRecords) :
        LET ra == RunRecords[a]
            rb == RunRecords[b]
        IN (Answered(ra) /\ Answered(rb)
                /\ ra.artifactAtDownload = rb.artifactAtDownload) =>
              /\ ra.explainJobs = rb.explainJobs
              /\ ra.artifactAtDownload = "present" => ra.explainJobs = 0

\* C20 witness: two runs uploaded different prediction data, found the object
\* at the path and submitted no job; the object explains the data of neither.
C20_Witness ==
    /\ Len(history) = 1
    /\ history[1].downloadOutcome = "ok" /\ history[1].explainJobs = 0
    /\ downloadOutcome = "ok" /\ explainJobs = 0
    /\ predCsv # <<>>
    /\ history[1].predCsv # predCsv
    /\ artifactOf # predCsv /\ artifactOf # history[1].predCsv

\* How often the lower-cased join carries the label f.
TimesLabelled(f) == Cardinality({ j \in 1..Len(data.columns) : data.columns[j] = f })

\* prediction_data.csv has been uploaded (its frame always has the rating).
Uploaded == predColumns # <<>>

---------------------------------------------------------------------------
(* Claims about the feature definitions (checked under SpecSchema).        *)

FeatureNames == { feature_definitions[i].feature_name : i \in 1..Len(feature_definitions) }

\* C22: every feature definition has a type among String, Integral and
\* Fractional: 'float' gives Fractional, 'long' gives Integral, every other
\* column type gives String; the definitions keep the order of column_schemas;
\* for the notebook's column_schemas the record identifier name and the event
\* time name are names of defined features.
C22_FeatureDefinitions ==
    schemaPc = "built" =>
        /\ Len(feature_definitions) = Len(column_schemas)
        /\ \A i \in 1..Len(column_schemas) :
              LET t == column_schemas[i].type
                  d == feature_definitions[i]
              IN /\ d.feature_name = column_schemas[i].name
                 /\ d.feature_type \in {"String", "Integral", "Fractional"}
                 /\ (t = "float") <=> (d.feature_type = "Fractional")
                 /\ (t = "long") <=> (d.feature_type = "Integral")
                 /\ (t \notin {"float", "long"}) <=> (d.feature_type = "String")
        /\ column_schemas = NotebookColumnSchemas =>
              /\ record_identifier_literal \in FeatureNames
              /\ event_time_literal \in FeatureNames

\* C22 witness: the definitions of the notebook's eight columns are built,
\* the event time being a Fractional feature.
C22_Witness ==
    /\ schemaPc = "built"
    /\ column_schemas = NotebookColumnSchemas
    /\ Len(feature_definitions) = 8
    /\ feature_definitions[8] = [feature_name |-> "EventTime", feature_type |-> "Fractional"]
    /\ feature_definitions[1] = [feature_name |-> "ratingEventId", feature_type |-> "String"]

---------------------------------------------------------------------------
(* Claims about interleaved runs of the export notebook (checked under     *)
(* SpecIngestConcurrent).                                                  *)

\* C23: when two runs for the same feature group name interleave, create
\* succeeds for at most one of them, at most one processing job is submitted
\* in total, and neither run is aborted by an error the notebook does not
\* classify (the store's refusal of a create for the taken name).
C23_InterleavedRunsAreIdempotent ==
    /\ Cardinality({ r \in Runs : createOutcome[r] = "created" }) <= 1
    /\ \A r, q \in Runs : (jobsSubmitted[r] > 0 /\ jobsSubmitted[q] > 0) => r = q
    /\ \A r \in Runs : jobsSubmitted[r] <= 1
    /\ \A r \in Runs : ~(pc[r] = "aborted" /\ createOutcome[r] = "ResourceInUse")

---------------------------------------------------------------------------
(* Claims about sequences of runs of the export notebook (checked under    *)
(* SpecIngest).                                                            *)

\* Run r has ended normally, having found the feature group and skipped the
\* processing job.
SkippedIngestion(r) ==
    pc[r] = "done" /\ feature_group_exists[r] = "True" /\ jobsSubmitted[r] = 0

\* C24: whenever a run finishes having found the feature group existing, and
\* so skipped the processing job, a processing job for the group has completed
\* in an earlier run.
C24_SkipOnlyAfterIngestion ==
    \A r \in Runs : SkippedIngestion(r) => fgPopulated

---------------------------------------------------------------------------
(* Claims about the endpoint the predictor is bound to (checked under      *)
(* SpecDeploy).                                                            *)

\* C26: after the deploy cells of a run have completed without error, an
\* endpoint named exactly endpoint_name is in service, and it is the one the
\* run's predictor is bound to.
C26_PredictorTargetsInServiceEndpoint ==
    \A r \in Runs :
        deployPc[r] = "done" =>
            /\ predictor[r] = endpoint_name
            /\ endpoints[endpoint_name] = "InService"

---------------------------------------------------------------------------
(* Claims about the names in the parameter store (checked under            *)
(* SpecStages).                                                            *)

\* C27: a resource name that a run has persisted refers to a resource that
\* exists: when a run of the export notebook has stored fg_name_ratings the
\* feature group has been created, and when a run of the deploy notebook has
\* stored endpoint_name the endpoint of that name has been deployed.
C27_PersistedNamesExist ==
    /\ (\E r \in Runs : StoredParams(r)) =>
          /\ persisted["fg_name_ratings"] = feature_group_name
          /\ fgStatus # "Absent"
    /\ (\E r \in Runs : DeployStoredParams(r)) =>
          /\ persisted["endpoint_name"] = endpoint_name
          /\ endpoints[endpoint_name] # "None"

---------------------------------------------------------------------------
(* Claims about what the last cell displays (checked under SpecInfer).     *)

\* local_explanations_out.iloc[0]: out.csv has one attribution row per row of
\* the prediction data it was computed from, in that order; the row plotted
\* explains the first of them.
ExplainedRow == artifactOf[1]

\* playlist.iloc[0]: the row whose rating is printed as 'Model prediction',
\* without the trackid that was attached after the upload.
DisplayedRow == SubSeq(playlist.rows[1], 1, Len(predColumns))

\* C28: the explanation displayed belongs to the prediction displayed: the
\* row that the plotted attributions explain is the inference row whose score
\* is printed as 'Model prediction'.
C28_ExplanationOfDisplayedPrediction ==
    inferPc = "done" => ExplainedRow = DisplayedRow

\* C29: when the tracks query answers no row the inference cells still
\* complete: no prediction request is sent, the predictions are empty, the
\* playlist is empty, and no cell of the notebook raises over the empty data
\* (the prediction cell sends no request, so only its own code can raise
\* there; the display cell reads out.csv, which may be missing).
C29_NoRowsStillCompletes ==
    Len(df_tracks.rows) = 0 =>
        /\ requests = <<>>
        /\ predictions = <<>>
        /\ PlaylistMade => Len(playlist.rows) = 0
        /\ inferAbortAt # "predict"
        /\ inferAbortAt = "display" => ~artifact

=============================================================================
